---- MODULE Spec2Model ----
(***************************************************************************)
(* Model of classify.py: the bird-sound classification command.  main      *)
(* resolves an audio file (URL download or local path), converts mp3 to    *)
(* wav, runs the classifier, ranks the predictions (classify_audio),       *)
(* evaluates the alerts of the top prediction (check_alerts) and prints    *)
(* the report (print_results).                                             *)
(*                                                                         *)
(* Strings the code inspects character by character (labels, which are     *)
(* lower-cased) are sequences of one-character strings.  Paths are         *)
(* sequences of path tokens, the extension being a token of its own.       *)
(* Scores are floats in [0,1] in the code; here they are integers counting *)
(* ten-thousandths, so 0.5 is 5000, 0.3 is 3000 and 0.4999 is 4999.        *)
(***************************************************************************)
EXTENDS Integers, Sequences, FiniteSets

VARIABLES
    pc,           \* position in main, or "fn" in the function harness
    args,         \* argparse namespace: [url, file]; <<>> is None / ""
    audio_path,   \* local variable audio_path of main
    preds,        \* what the classifier returned (classify_audio's preds)
    predictions,  \* what classify_audio returned (ranked)
    top_n,        \* print_results' top_n parameter
    top1,         \* print_results' top1 / check_alerts' arguments: <<>> or <<p>>
    alerts,       \* the list check_alerts returned
    out,          \* lines printed on stdout, in order
    exit_code,    \* process exit status, -1 while running
    exc,          \* exception that ended the process, "none" if none
    failed,       \* the upstream step that failed, "none" if none
    calls         \* log of the stages that ran, in order

vars == <<pc, args, audio_path, preds, predictions, top_n, top1, alerts,
          out, exit_code, exc, failed, calls>>

----------------------------------------------------------------------------
(* Bounds of the model *)

\* longest list the classifier returns
MaxPreds == 3

\* largest top_n the function harness passes to print_results
MaxTopN == 4

----------------------------------------------------------------------------
(* Program constants *)

\* classify.py:18, 0.5 in ten-thousandths
LOW_CONFIDENCE_THRESHOLD == 5000

\* classify.py:19, 0.3 in ten-thousandths
UNKNOWN_SOUND_THRESHOLD == 3000

\* classify.py:84, default of top_n
DEFAULT_TOP_N == 3

\* classify.py:22-27
RARE_SPECIES ==
    << <<"s", "p", "o", "t", "t", "e", "d", " ", "o", "w", "l">>,
       <<"c", "a", "l", "i", "f", "o", "r", "n", "i", "a", " ", "c", "o", "n", "d", "o", "r">>,
       <<"w", "h", "o", "o", "p", "i", "n", "g", " ", "c", "r", "a", "n", "e">>,
       <<"i", "v", "o", "r", "y", "-", "b", "i", "l", "l", "e", "d", " ", "w", "o", "o", "d", "p", "e", "c", "k", "e", "r">> >>

\* the alert messages, named by their tag
RARE_ALERT == "RARE_SPECIES"
LOW_ALERT == "LOW_CONFIDENCE"
UNKNOWN_ALERT == "UNKNOWN_SOUND"

----------------------------------------------------------------------------
(* str.lower *)

UpperChars ==
    <<"A", "B", "C", "D", "E", "F", "G", "H", "I", "J", "K", "L", "M",
      "N", "O", "P", "Q", "R", "S", "T", "U", "V", "W", "X", "Y", "Z">>

LowerChars ==
    <<"a", "b", "c", "d", "e", "f", "g", "h", "i", "j", "k", "l", "m",
      "n", "o", "p", "q", "r", "s", "t", "u", "v", "w", "x", "y", "z">>

LowerChar(c) ==
    IF \E i \in 1..Len(UpperChars) : UpperChars[i] = c
    THEN LowerChars[CHOOSE i \in 1..Len(UpperChars) : UpperChars[i] = c]
    ELSE c

lower(s) == [i \in 1..Len(s) |-> LowerChar(s[i])]

----------------------------------------------------------------------------
(* check_alerts *)

\* fault variant: `entry in label` (substring) instead of `label in list`
check_alerts_rare_substring(pred_label) ==
    IF \E i \in 1..Len(RARE_SPECIES) : \E k \in 1..Len(pred_label) :
           /\ k + Len(RARE_SPECIES[i]) - 1 <= Len(pred_label)
           /\ SubSeq(lower(pred_label), k, k + Len(RARE_SPECIES[i]) - 1)
                  = lower(RARE_SPECIES[i])
    THEN <<RARE_ALERT>> ELSE <<>>

check_alerts_rare(pred_label) ==
    IF \E i \in 1..Len(RARE_SPECIES) : lower(pred_label) = lower(RARE_SPECIES[i])
    THEN <<RARE_ALERT>> ELSE <<>>

\* fault variant: <= instead of <
check_alerts_low_inclusive(pred_score) ==
    IF pred_score <= LOW_CONFIDENCE_THRESHOLD THEN <<LOW_ALERT>> ELSE <<>>

check_alerts_low(pred_score) ==
    IF pred_score < LOW_CONFIDENCE_THRESHOLD THEN <<LOW_ALERT>> ELSE <<>>

\* fault variant: <= instead of <
check_alerts_unknown_inclusive(pred_score) ==
    IF pred_score <= UNKNOWN_SOUND_THRESHOLD THEN <<UNKNOWN_ALERT>> ELSE <<>>

check_alerts_unknown(pred_score) ==
    IF pred_score < UNKNOWN_SOUND_THRESHOLD THEN <<UNKNOWN_ALERT>> ELSE <<>>

\* fault variant: the two score rules as if / elif, the more severe first
check_alerts_elif(pred_label, pred_score) ==
    check_alerts_rare(pred_label)
        \o (IF pred_score < UNKNOWN_SOUND_THRESHOLD
            THEN check_alerts_unknown(pred_score)
            ELSE check_alerts_low(pred_score))

\* fault variant: the rare-species rule evaluated last
check_alerts_rare_last(pred_label, pred_score) ==
    check_alerts_low(pred_score) \o check_alerts_unknown(pred_score)
        \o check_alerts_rare(pred_label)

check_alerts(pred_label, pred_score) ==
    check_alerts_rare(pred_label) \o check_alerts_low(pred_score)
        \o check_alerts_unknown(pred_score)

----------------------------------------------------------------------------
(* sorted(preds, key=score, reverse=True): list.sort reverses the list,    *)
(* sorts it ascending with a stable insertion sort, and reverses it again. *)

Reverse(l) == [i \in 1..Len(l) |-> l[Len(l) + 1 - i]]

\* x goes after every element whose key is not greater than its own
InsertByScore(l, x) ==
    LET k == Cardinality({i \in 1..Len(l) : l[i].score <= x.score})
    IN  SubSeq(l, 1, k) \o <<x>> \o SubSeq(l, k + 1, Len(l))

RECURSIVE SortAscending(_)
SortAscending(l) ==
    IF l = <<>> THEN <<>>
    ELSE InsertByScore(SortAscending(SubSeq(l, 1, Len(l) - 1)), l[Len(l)])

\* fault variant: reverse=True left out
sorted_ascending(l) == SortAscending(l)

\* fault variant: ascending sort reversed afterwards, which turns ties around
sorted_then_reversed(l) == Reverse(SortAscending(l))

sorted_reverse(l) == Reverse(SortAscending(Reverse(l)))

classify_audio(classifier_result) == sorted_reverse(classifier_result)

----------------------------------------------------------------------------
(* print_results *)

Line(kind, rank, label, pct, text) ==
    [kind |-> kind, rank |-> rank, label |-> label, pct |-> pct, text |-> text]

\* format spec .1% : the score as tenths of a percent, rounded to nearest
\* (no score of the inputs below lies halfway between two tenths)
Percent1(score) == (score + 5) \div 10

Min(a, b) == IF a < b THEN a ELSE b

\* fault variant: predictions[:3] whatever top_n is
Slice_first_three(l, n) == SubSeq(l, 1, Min(3, Len(l)))

\* predictions[:top_n]
Slice(l, n) == SubSeq(l, 1, Min(n, Len(l)))

HeaderLines ==
    << Line("rule", 0, <<>>, 0, ""),
       Line("title", 0, <<>>, 0, ""),
       Line("rule", 0, <<>>, 0, "") >>

TopLines(p) ==
    << Line("species", 0, p.label, 0, ""),
       Line("confidence", 0, <<>>, Percent1(p.score), "") >>

AlertLines(al) ==
    IF al = <<>> THEN <<>>
    ELSE << Line("dash", 0, <<>>, 0, ""), Line("alerts_title", 0, <<>>, 0, "") >>
         \o [i \in 1..Len(al) |-> Line("alert", 0, <<>>, 0, al[i])]

RankedLines(l, n) ==
    << Line("dash", 0, <<>>, 0, ""), Line("topn_title", n, <<>>, 0, "") >>
    \o [i \in 1..Len(Slice(l, n)) |->
            Line("ranked", i, Slice(l, n)[i].label, Percent1(Slice(l, n)[i].score), "")]
    \o << Line("rule", 0, <<>>, 0, "") >>

\* the effect of one call: the lines printed, the exception raised, and the
\* locals top1 and alerts
print_results(l, n) ==
    IF l = <<>>
    THEN [lines |-> HeaderLines, exc |-> "IndexError", top1 |-> <<>>,
          alerts |-> <<>>, called |-> <<"print_results">>]
    ELSE LET al == check_alerts(l[1].label, l[1].score)
         IN  [lines |-> HeaderLines \o TopLines(l[1]) \o AlertLines(al)
                            \o RankedLines(l, n),
              exc |-> "none", top1 |-> <<l[1]>>, alerts |-> al,
              called |-> <<"print_results", "check_alerts">>]

----------------------------------------------------------------------------
(* Inputs *)

Str_spotted_owl == <<"s", "p", "o", "t", "t", "e", "d", " ", "o", "w", "l">>
Str_Spotted_Owl == <<"S", "p", "o", "t", "t", "e", "d", " ", "O", "w", "l">>
Str_WHOOPING_CRANE == <<"W", "H", "O", "O", "P", "I", "N", "G", " ", "C", "R", "A", "N", "E">>
Str_Spotted_Owl_Juvenile ==
    <<"S", "p", "o", "t", "t", "e", "d", " ", "O", "w", "l", " ", "J", "u", "v", "e", "n", "i", "l", "e">>
Str_owl == <<"o", "w", "l">>
Str_American_Robin == <<"A", "m", "e", "r", "i", "c", "a", "n", " ", "R", "o", "b", "i", "n">>
Str_Unknown_Noise == <<"U", "n", "k", "n", "o", "w", "n", " ", "N", "o", "i", "s", "e">>
Str_California_Condor ==
    <<"C", "a", "l", "i", "f", "o", "r", "n", "i", "a", " ", "C", "o", "n", "d", "o", "r">>

Labels ==
    {Str_spotted_owl, Str_Spotted_Owl, Str_WHOOPING_CRANE, Str_Spotted_Owl_Juvenile,
     Str_owl, Str_American_Robin, Str_Unknown_Noise, Str_California_Condor}

Scores == {0, 2500, 2999, 3000, 4999, 5000, 6500, 8200, 10000}

Prediction(l, s) == [label |-> l, score |-> s]

AllPreds == {Prediction(l, s) : l \in Labels, s \in Scores}

\* predictions the longer classifier results are made of
RankLabels == {Str_American_Robin, Str_Unknown_Noise, Str_Spotted_Owl}
RankScores == {2500, 4999, 8200}
RankPreds == {Prediction(l, s) : l \in RankLabels, s \in RankScores}

SeqsUpTo(S, n) == UNION {[1..k -> S] : k \in 0..n}

\* what the classifier may return: any list of RankPreds up to MaxPreds long
\* (the empty one included), or a single prediction of AllPreds
ClassifierResults == SeqsUpTo(RankPreds, MaxPreds) \cup {<<p>> : p \in AllPreds}

URL == <<"https://xeno-canto.org/1/download">>
TempAudio == <<"tmp", "audio", ".mp3">>
Files == { <<"recording", ".mp3">>, <<"recording", ".wav">> }

----------------------------------------------------------------------------
(* str.endswith(".mp3") and str.replace(".mp3", ".wav") on token paths *)

endswith_mp3(p) == p # <<>> /\ p[Len(p)] = ".mp3"

replace_mp3_wav(p) == [i \in 1..Len(p) |-> IF p[i] = ".mp3" THEN ".wav" ELSE p[i]]

Info(text) == Line("info", 0, <<>>, 0, text)

----------------------------------------------------------------------------
(* main *)

Init ==
    /\ pc = "parse_args"
    /\ args = [url |-> <<>>, file |-> <<>>]
    /\ audio_path = <<>>
    /\ preds = <<>>
    /\ predictions = <<>>
    /\ top_n = DEFAULT_TOP_N
    /\ top1 = <<>>
    /\ alerts = <<>>
    /\ out = <<>>
    /\ exit_code = -1
    /\ exc = "none"
    /\ failed = "none"
    /\ calls = <<>>

\* the process ends: sys.exit(1) or an exception nobody catches
Die(step, e, lines) ==
    /\ pc' = "exit"
    /\ exit_code' = 1
    /\ exc' = e
    /\ failed' = step
    /\ out' = out \o lines

\* lines 112-121
ParseArgs ==
    /\ pc = "parse_args"
    /\ \E u \in {<<>>, URL}, f \in {<<>>} \cup Files :
         /\ args' = [url |-> u, file |-> f]
         /\ IF u = <<>> /\ f = <<>>
            THEN Die("args", "SystemExit", <<Info("usage error"), Info("usage example")>>)
            ELSE /\ pc' = "load_model"
                 /\ UNCHANGED <<exit_code, exc, failed, out>>
    /\ UNCHANGED <<audio_path, preds, predictions, top_n, top1, alerts, calls>>

\* lines 124-127
LoadModel ==
    /\ pc = "load_model"
    /\ \E ok \in BOOLEAN :
         IF ok
         THEN /\ pc' = "resolve"
              /\ out' = out \o <<Info("loading model"), Info("model loaded")>>
              /\ UNCHANGED <<exit_code, exc, failed>>
         ELSE Die("load_model", "Exception", <<Info("loading model")>>)
    /\ UNCHANGED <<args, audio_path, preds, predictions, top_n, top1, alerts, calls>>

\* fault variant: the result of download_audio is not looked at
ResolveUrl_unchecked ==
    /\ pc = "resolve"
    /\ args.url # <<>>
    /\ audio_path' = TempAudio
    /\ calls' = calls \o <<"download_audio">>
    /\ pc' = "convert"
    /\ \E ok \in BOOLEAN :
         IF ok
         THEN /\ out' = out \o <<Info("downloading"), Info("saved")>>
              /\ UNCHANGED failed
         ELSE /\ out' = out \o <<Info("downloading"), Info("download error")>>
              /\ failed' = "download"
    /\ UNCHANGED <<args, preds, predictions, top_n, top1, alerts, exit_code, exc>>

\* lines 130-135 with download_audio, lines 30-42
ResolveUrl ==
    /\ pc = "resolve"
    /\ args.url # <<>>
    /\ audio_path' = TempAudio
    /\ calls' = calls \o <<"download_audio">>
    /\ \E ok \in BOOLEAN :
         IF ok
         THEN /\ pc' = "convert"
              /\ out' = out \o <<Info("downloading"), Info("saved")>>
              /\ UNCHANGED <<exit_code, exc, failed>>
         ELSE Die("download", "SystemExit", <<Info("downloading"), Info("download error")>>)
    /\ UNCHANGED <<args, preds, predictions, top_n, top1, alerts>>

\* lines 136-140
ResolveFile ==
    /\ pc = "resolve"
    /\ args.url = <<>>
    /\ audio_path' = args.file
    /\ \E exists \in BOOLEAN :
         IF exists
         THEN /\ pc' = "convert"
              /\ UNCHANGED <<exit_code, exc, failed, out>>
         ELSE Die("missing_file", "SystemExit", <<Info("file not found")>>)
    /\ UNCHANGED <<args, preds, predictions, top_n, top1, alerts, calls>>

\* lines 143-146 with convert_to_wav, lines 45-54
Convert ==
    /\ pc = "convert"
    /\ IF endswith_mp3(audio_path)
       THEN /\ calls' = calls \o <<"convert_to_wav">>
            /\ \E ok \in BOOLEAN :
                 IF ok
                 THEN /\ pc' = "classify"
                      /\ audio_path' = replace_mp3_wav(audio_path)
                      /\ out' = out \o <<Info("converting"), Info("converted")>>
                      /\ UNCHANGED <<exit_code, exc, failed>>
                 ELSE /\ Die("convert", "Exception", <<Info("converting")>>)
                      /\ UNCHANGED audio_path
       ELSE /\ pc' = "classify"
            /\ UNCHANGED <<audio_path, calls, exit_code, exc, failed, out>>
    /\ UNCHANGED <<args, preds, predictions, top_n, top1, alerts>>

\* line 149 with classify_audio, lines 57-62
Classify ==
    /\ pc = "classify"
    /\ \/ /\ Die("classifier", "Exception", <<Info("classifying")>>)
          /\ calls' = calls \o <<"classifier">>
          /\ UNCHANGED <<preds, predictions>>
       \/ \E r \in ClassifierResults :
            /\ preds' = r
            /\ predictions' = classify_audio(r)
            /\ calls' = calls \o <<"classifier", "sorted">>
            /\ out' = out \o <<Info("classifying")>>
            /\ pc' = "print_results"
            /\ UNCHANGED <<exit_code, exc, failed>>
    /\ UNCHANGED <<args, audio_path, top_n, top1, alerts>>

\* line 152 with print_results, lines 84-108, and the end of the process
PrintResults ==
    /\ pc = "print_results"
    /\ LET r == print_results(predictions, top_n)
       IN  /\ out' = out \o r.lines
           /\ exc' = r.exc
           /\ top1' = r.top1
           /\ alerts' = r.alerts
           /\ calls' = calls \o r.called
           /\ exit_code' = IF r.exc = "none" THEN 0 ELSE 1
    /\ pc' = "exit"
    /\ UNCHANGED <<args, audio_path, preds, predictions, top_n, failed>>

Next ==
    \/ ParseArgs
    \/ LoadModel
    \/ ResolveUrl
    \/ ResolveFile
    \/ Convert
    \/ Classify
    \/ PrintResults

Spec == Init /\ [][Next]_vars

----------------------------------------------------------------------------
(* Function harness: one call of check_alerts, or one call of              *)
(* classify_audio followed by one call of print_results with any top_n up  *)
(* to MaxTopN.                                                             *)

InitFn ==
    /\ pc = "fn"
    /\ args = [url |-> <<>>, file |-> <<>>]
    /\ audio_path = <<>>
    /\ preds = <<>>
    /\ predictions = <<>>
    /\ top_n = DEFAULT_TOP_N
    /\ top1 = <<>>
    /\ alerts = <<>>
    /\ out = <<>>
    /\ exit_code = -1
    /\ exc = "none"
    /\ failed = "none"
    /\ calls = <<>>

\* classify_audio(file_path, classifier), lines 57-62
FnClassifyAudio ==
    /\ pc = "fn"
    /\ \E r \in ClassifierResults :
         /\ preds' = r
         /\ predictions' = classify_audio(r)
    /\ calls' = calls \o <<"classifier", "sorted">>
    /\ out' = out \o <<Info("classifying")>>
    /\ pc' = "fn_ranked"
    /\ UNCHANGED <<args, audio_path, top_n, top1, alerts, exit_code, exc, failed>>

\* check_alerts(pred_label, pred_score), lines 65-81
FnCheckAlerts ==
    /\ pc = "fn"
    /\ \E l \in Labels, s \in Scores :
         /\ top1' = <<Prediction(l, s)>>
         /\ alerts' = check_alerts(l, s)
    /\ calls' = calls \o <<"check_alerts">>
    /\ pc' = "fn_done"
    /\ UNCHANGED <<args, audio_path, preds, predictions, top_n, out, exit_code,
                   exc, failed>>

\* print_results(predictions, top_n), lines 84-108, on a ranked list
FnPrintResults ==
    /\ pc = "fn_ranked"
    /\ \E n \in 1..MaxTopN :
         LET r == print_results(predictions, n)
         IN  /\ top_n' = n
             /\ out' = out \o r.lines
             /\ exc' = r.exc
             /\ top1' = r.top1
             /\ alerts' = r.alerts
             /\ calls' = calls \o r.called
    /\ pc' = "fn_done"
    /\ UNCHANGED <<args, audio_path, preds, predictions, exit_code, failed>>

NextFn ==
    \/ FnClassifyAudio
    \/ FnCheckAlerts
    \/ FnPrintResults

SpecFn == InitFn /\ [][NextFn]_vars

----------------------------------------------------------------------------
(* Properties *)

Range(s) == {s[i] : i \in DOMAIN s}

Count(s, x) == Cardinality({i \in DOMAIN s : s[i] = x})

IsReportLine(x) == x.kind # "info"
IsAlertLine(x) == x.kind = "alert"
IsRankedLine(x) == x.kind = "ranked"

\* what of the report is on stdout
ReportLines == SelectSeq(out, IsReportLine)

\* the alert messages on stdout, in order
PrintedAlerts ==
    LET al == SelectSeq(out, IsAlertLine) IN [i \in 1..Len(al) |-> al[i].text]

Ran(stage) == stage \in Range(calls)

\* the two characters are the same letter in either case, or the same character
SameLetter(c, d) ==
    \/ c = d
    \/ \E k \in 1..Len(UpperChars) : {c, d} = {UpperChars[k], LowerChars[k]}

\* whole-string equality that ignores case
EqualIgnoringCase(a, b) ==
    /\ Len(a) = Len(b)
    /\ \A i \in 1..Len(a) : SameLetter(a[i], b[i])

InRegistry(label) ==
    \E i \in 1..Len(RARE_SPECIES) : EqualIgnoringCase(label, RARE_SPECIES[i])

\* check_alerts has been called on top1
AlertsChecked == Ran("check_alerts") /\ top1 # <<>>

\* C1: when the classifier returns an empty list, the invocation ends with
\* EmptyResultError and nothing of the report is printed: no print_results
\* output and no check_alerts.
C1_EmptyResultRaises ==
    (pc = "exit" /\ Ran("classifier") /\ failed = "none" /\ preds = <<>>)
        => /\ exc = "EmptyResultError"
           /\ ReportLines = <<>>
           /\ ~Ran("check_alerts")

\* C2: for a non-empty classifier result, what classify_audio returns has the
\* same length, is a permutation of it, and is sorted by score, non-increasing.
C2_RankedIsSortedPermutation ==
    (Ran("sorted") /\ preds # <<>>)
        => /\ Len(predictions) = Len(preds)
           /\ \A p \in Range(preds) \cup Range(predictions) :
                  Count(predictions, p) = Count(preds, p)
           /\ \A i \in 1..(Len(predictions) - 1) :
                  predictions[i].score >= predictions[i + 1].score

C2_Witness ==
    /\ Ran("sorted")
    /\ Len(preds) = 3
    /\ preds[1].score < preds[2].score
    /\ preds[2].score < preds[3].score
    /\ predictions = <<preds[3], preds[2], preds[1]>>

\* C3: the ranking is stable: the predictions of one score come in the order
\* the classifier gave them.
C3_RankingIsStable ==
    Ran("sorted")
        => \A s \in {p.score : p \in Range(preds)} :
               LET HasScore(p) == p.score = s
               IN  SelectSeq(predictions, HasScore) = SelectSeq(preds, HasScore)

C3_Witness ==
    /\ Ran("sorted")
    /\ Len(preds) = 3
    /\ preds[1].score = preds[2].score
    /\ preds[1].label # preds[2].label
    /\ preds[3].score > preds[1].score
    /\ predictions = <<preds[3], preds[1], preds[2]>>

\* C4: check_alerts gives the rare-species alert exactly when the label is,
\* ignoring case, equal as a whole string to an entry of RARE_SPECIES.
C4_RareIffWholeMatch ==
    AlertsChecked => (RARE_ALERT \in Range(alerts) <=> InRegistry(top1[1].label))

\* a label that contains an entry does not fire
C4_Witness ==
    /\ AlertsChecked
    /\ top1[1].label = Str_Spotted_Owl_Juvenile
    /\ RARE_ALERT \notin Range(alerts)

\* C5: check_alerts gives the low-confidence alert exactly when the score is
\* below 0.5; at 0.5 it does not.
C5_LowIffBelowHalf ==
    AlertsChecked => (LOW_ALERT \in Range(alerts) <=> top1[1].score < 5000)

C5_Witness ==
    /\ AlertsChecked
    /\ top1[1].score = 5000
    /\ LOW_ALERT \notin Range(alerts)

\* C6: check_alerts gives the unknown-sound alert exactly when the score is
\* below 0.3; at 0.3 it does not.
C6_UnknownIffBelowThreeTenths ==
    AlertsChecked => (UNKNOWN_ALERT \in Range(alerts) <=> top1[1].score < 3000)

C6_Witness ==
    /\ AlertsChecked
    /\ top1[1].score = 3000
    /\ UNKNOWN_ALERT \notin Range(alerts)
    /\ LOW_ALERT \in Range(alerts)

\* C7: whenever the unknown-sound alert is given the low-confidence alert is
\* given too, and a rare label with a score below 0.3 gets all three alerts.
C7_UnknownImpliesLow ==
    AlertsChecked
        => /\ UNKNOWN_ALERT \in Range(alerts) => LOW_ALERT \in Range(alerts)
           /\ (InRegistry(top1[1].label) /\ top1[1].score < 3000)
                  => Range(alerts) = {RARE_ALERT, LOW_ALERT, UNKNOWN_ALERT}

C7_Witness ==
    /\ AlertsChecked
    /\ InRegistry(top1[1].label)
    /\ top1[1].score = 2999
    /\ Len(alerts) = 3

AlertRank(a) ==
    CASE a = RARE_ALERT -> 1
      [] a = LOW_ALERT -> 2
      [] a = UNKNOWN_ALERT -> 3
      [] OTHER -> 0

\* C8: the alerts, as returned and as printed, are a duplicate-free
\* subsequence of (rare species, low confidence, unknown sound); a label that
\* is not rare with score 0.25 gets low confidence then unknown sound, a rare
\* label with score 0.65 gets the rare-species alert alone.
C8_AlertsInFixedOrder ==
    /\ \A i \in 1..Len(alerts) : AlertRank(alerts[i]) >= 1
    /\ \A i, j \in 1..Len(alerts) :
           i < j => AlertRank(alerts[i]) < AlertRank(alerts[j])
    /\ PrintedAlerts = alerts
    /\ (AlertsChecked /\ ~InRegistry(top1[1].label) /\ top1[1].score = 2500)
           => alerts = <<LOW_ALERT, UNKNOWN_ALERT>>
    /\ (AlertsChecked /\ InRegistry(top1[1].label) /\ top1[1].score = 6500)
           => alerts = <<RARE_ALERT>>

C8_Witness ==
    /\ pc = "exit"
    /\ AlertsChecked
    /\ InRegistry(top1[1].label)
    /\ top1[1].score = 2500
    /\ PrintedAlerts = <<RARE_ALERT, LOW_ALERT, UNKNOWN_ALERT>>

\* C9: on a non-empty ranked list with top_n >= 1, print_results prints
\* min(top_n, number of predictions) ranked lines, numbered from 1, which are
\* the first predictions in ranked order, and raises nothing.
C9_RankedLinesClamped ==
    (Ran("print_results") /\ predictions # <<>> /\ top_n >= 1)
        => LET rl == SelectSeq(out, IsRankedLine)
               k == IF top_n < Len(predictions) THEN top_n ELSE Len(predictions)
           IN  /\ exc = "none"
               /\ Len(rl) = k
               /\ \A i \in 1..Len(rl) :
                      /\ rl[i].rank = i
                      /\ i <= Len(predictions)
                      /\ rl[i].label = predictions[i].label
                      /\ rl[i].pct = Percent1(predictions[i].score)

\* top_n = 3 with two predictions: two ranked lines
C9_Witness ==
    /\ Ran("print_results")
    /\ top_n = 3
    /\ Len(predictions) = 2
    /\ Len(SelectSeq(out, IsRankedLine)) = 2
    /\ exc = "none"

\* C10: once an upstream step has failed the invocation has ended with a
\* non-zero exit status and neither the ranking, nor check_alerts, nor
\* print_results has run or will run; report lines are on stdout only when
\* every upstream step succeeded.
C10_FailureStopsPipeline ==
    /\ failed # "none"
           => /\ pc = "exit"
              /\ exit_code > 0
              /\ ~Ran("sorted")
              /\ ~Ran("check_alerts")
              /\ ~Ran("print_results")
              /\ ReportLines = <<>>
    /\ ReportLines # <<>>
           => /\ failed = "none"
              /\ Ran("classifier")
              /\ Ran("sorted")
              /\ args.url # <<>> => Ran("download_audio")

\* the download failed after the model was loaded
C10_Witness ==
    /\ failed = "download"
    /\ pc = "exit"
    /\ exit_code = 1
    /\ Ran("download_audio")
    /\ ReportLines = <<>>

====
